---- MODULE Spec2Model ----
(***************************************************************************)
(* Model of lldb/utils/TableGen/LLDBPropertyDefEmitter.cpp: the two        *)
(* TableGen backends EmitPropertyDefs (table mode) and                     *)
(* EmitPropertyEnumDefs (enum mode).                                       *)
(*                                                                         *)
(* Text is modelled as follows.  A group name and a guard macro are        *)
(* sequences of one-character strings, because the code edits them         *)
(* character by character (std::replace) and orders them character by      *)
(* character (std::map<std::string, ...>).  Every other piece of text is a *)
(* TLA+ string.  The output stream OS is the sequence of lines written so  *)
(* far; a line is a record                                                 *)
(*    k   : the kind of line                                               *)
(*    s   : its group name or guard macro (character sequence)             *)
(*    t   : its text fields, in the order they were written                *)
(*    rec : the TableGen name of the record whose emitProperty /           *)
(*          emitPropertyEnum call wrote the line ("" for other lines)      *)
(***************************************************************************)
EXTENDS Integers, Sequences, FiniteSets, TLC

VARIABLES
  Properties,   \* the vector returned by Records.getAllDerivedDefinitions
  mode,         \* "table": EmitPropertyDefs, "enum": EmitPropertyEnumDefs
  NDEBUG,       \* TRUE when the tool was built with assertions compiled out
  pc,           \* position of the run
  err,          \* the assertion that stopped the run, "" if none
  OS,           \* the lines written to the raw_ostream so far
  result,       \* the RecordsByDefinition map built by getPropertyList
  gi,           \* index of the map entry the range-for is at
  ri,           \* index of the record the inner range-for is at
  prev          \* the previous run of the tool on the same record set, if any

vars == <<Properties, mode, NDEBUG, pc, err, OS, result, gi, ri, prev>>

\* Longest vector of records the Record Source supplies.
MaxLen == 3

(***************************************************************************)
(* Characters and std::string ordering                                     *)
(***************************************************************************)
UpperLetters ==
  <<"A","B","C","D","E","F","G","H","I","J","K","L","M",
    "N","O","P","Q","R","S","T","U","V","W","X","Y","Z">>

LowerLetters ==
  <<"a","b","c","d","e","f","g","h","i","j","k","l","m",
    "n","o","p","q","r","s","t","u","v","w","x","y","z">>

Chars == {" ", "_"} \cup {UpperLetters[i] : i \in 1..26} \cup {LowerLetters[i] : i \in 1..26}

\* The character's code (ASCII), which std::string's operator< compares.
AsciiTable ==
  [c \in Chars |->
     IF c = " " THEN 32
     ELSE IF c = "_" THEN 95
     ELSE IF \E i \in 1..26 : UpperLetters[i] = c
          THEN 64 + (CHOOSE i \in 1..26 : UpperLetters[i] = c)
          ELSE 96 + (CHOOSE i \in 1..26 : LowerLetters[i] = c)]

CharCode(c) == AsciiTable[c]

\* std::less<std::string>: lexicographic comparison, a proper prefix first.
StrLess(a, b) ==
  \E k \in 1..(Len(a) + 1) :
     /\ \A j \in 1..(k - 1) : j <= Len(b) /\ a[j] = b[j]
     /\ \/ k = Len(a) + 1 /\ k <= Len(b)
        \/ k <= Len(a) /\ k <= Len(b) /\ CharCode(a[k]) < CharCode(b[k])

(***************************************************************************)
(* The records of the Record Source                                        *)
(***************************************************************************)
Target == <<"T","a","r","g","e","t">>
TargetExperimental ==
  <<"T","a","r","g","e","t"," ","E","x","p","e","r","i","m","e","n","t","a","l">>
debugger == <<"d","e","b","u","g","g","e","r">>

\* A record of class Property.  An optional field is <<>> when the record
\* has no such field and <<v>> when it has it with value v; Global and the
\* three Has... markers are fields the code only tests for presence.
Rec(RecName, Definition, Name, Type, Global, HasU, HasE, HasS, U, E, S, EV, D) ==
  [RecName |-> RecName, Definition |-> Definition, Name |-> Name,
   Type |-> Type, Global |-> Global,
   HasDefaultUnsignedValue |-> HasU, HasDefaultEnumValue |-> HasE,
   HasDefaultStringValue |-> HasS,
   DefaultUnsignedValue |-> U, DefaultEnumValue |-> E,
   DefaultStringValue |-> S, EnumValues |-> EV, Description |-> D]

Verbose  == Rec("Verbose", debugger, "verbose", "Boolean", FALSE,
                TRUE, FALSE, FALSE, <<0>>, <<>>, <<>>, <<>>, <<>>)
Timeout  == Rec("Timeout", debugger, "timeout", "UInt64", TRUE,
                TRUE, FALSE, FALSE, <<30>>, <<>>, <<>>, <<>>, <<"Seconds">>)
Prompt   == Rec("Prompt", debugger, "prompt", "String", TRUE,
                FALSE, FALSE, TRUE, <<>>, <<>>, <<"(lldb) ">>, <<>>, <<>>)
LoadScript == Rec("LoadScriptFromSymbolFile", Target, "load-script-from-symbol-file",
                "Enum", FALSE, FALSE, TRUE, FALSE, <<>>, <<"eLoadScriptFromSymFileWarn">>,
                <<>>, <<"OptionEnumValues(g_load_script_from_sym_file_values)">>,
                <<"Allow LLDB to load scripting resources.">>)
ExprPrefix == Rec("ExprPrefix", Target, "expr-prefix", "FileSpec", FALSE,
                TRUE, FALSE, TRUE, <<7>>, <<>>, <<"prefix.h">>, <<>>, <<>>)
Language == Rec("Language", TargetExperimental, "language", "Language", FALSE,
                FALSE, TRUE, TRUE, <<>>, <<"eLanguageTypeUnknown">>, <<"c++">>,
                <<>>, <<"The language to use.">>)
InjectLocals == Rec("InjectLocals", TargetExperimental, "verbose", "Boolean", TRUE,
                TRUE, FALSE, FALSE, <<1>>, <<>>, <<>>, <<>>, <<>>)
\* A record with no default of any kind.
NoDefault == Rec("NoDefault", TargetExperimental, "no-default", "Boolean", FALSE,
                FALSE, FALSE, FALSE, <<>>, <<>>, <<>>, <<>>, <<>>)
\* A record with both an unsigned and an enum default.
BothDefaults == Rec("BothDefaults", Target, "both-defaults", "Enum", FALSE,
                TRUE, TRUE, FALSE, <<5>>, <<"eBoth">>, <<>>, <<>>, <<>>)
\* A record with the HasDefaultStringValue marker and no DefaultStringValue.
MarkerOnly == Rec("MarkerOnly", TargetExperimental, "marker-only", "String", FALSE,
                FALSE, FALSE, TRUE, <<>>, <<>>, <<>>, <<>>, <<>>)

\* The records a run of the model draws its input from.
AllRecords ==
  {Verbose, Timeout, Prompt, LoadScript, ExprPrefix, Language, InjectLocals,
   NoDefault, BothDefaults, MarkerOnly}

\* The records the two-run specification draws its input from.
PairRecords == {Verbose, Timeout, LoadScript, Language, NoDefault}

\* A Record * is modelled by the record's TableGen name, which is unique in
\* a RecordKeeper; At(p) is the record it points to.
Ptr(S) == {r.RecName : r \in S}
RecordKeeper == [p \in Ptr(AllRecords) |-> CHOOSE r \in AllRecords : r.RecName = p]
At(p) == RecordKeeper[p]

\* The vectors of at most MaxLen distinct records of the set S.
Vectors(S) ==
  UNION {{v \in [1..n -> S] : \A i, j \in 1..n : i # j => v[i] # v[j]} : n \in 0..MaxLen}

(***************************************************************************)
(* std::map<std::string, std::vector<Record *>> and getPropertyList        *)
(*                                                                         *)
(* The map is the sequence of its entries [first, second] in the order its *)
(* iterator visits them, which is ascending order of the keys.             *)
(***************************************************************************)
EmptyMap == <<>>

\* The position of the entry with this key, 0 if the map has none.
MapFind(res, key) ==
  IF \E i \in 1..Len(res) : res[i].first = key
  THEN CHOOSE i \in 1..Len(res) : res[i].first = key
  ELSE 0

\* Variant of MapSlot: a container that keeps its entries in the order the
\* keys were first inserted.
MapSlotInsertionOrder(res, key) == Len(res) + 1

\* The position a new entry with this key is inserted at: after every
\* entry whose key is less.
MapSlot(res, key) ==
  1 + Cardinality({i \in 1..Len(res) : StrLess(res[i].first, key)})

\* operator[]: the map with an entry for the key, a new one holding an
\* empty vector.
MapEnsure(res, key) ==
  IF MapFind(res, key) # 0 THEN res
  ELSE LET at == MapSlot(res, key)
       IN SubSeq(res, 1, at - 1) \o <<[first |-> key, second |-> <<>>]>>
          \o SubSeq(res, at, Len(res))

\* Variant of PushBack: the entry's vector is replaced, not extended.
PushBackOverwrites(res, Property) ==
  LET key == At(Property).Definition
      ens == MapEnsure(res, key)
  IN [ens EXCEPT ![MapFind(ens, key)].second = <<Property>>]

\* Variant of PushBack: the record is put at the front of the vector.
PushFront(res, Property) ==
  LET key == At(Property).Definition
      ens == MapEnsure(res, key)
  IN [ens EXCEPT ![MapFind(ens, key)].second = <<Property>> \o @]

\* result[Property->getValueAsString("Definition").str()].push_back(Property)
PushBack(res, Property) ==
  LET key == At(Property).Definition
      ens == MapEnsure(res, key)
  IN [ens EXCEPT ![MapFind(ens, key)].second = Append(@, Property)]

RECURSIVE GroupInto(_, _)
GroupInto(res, Props) ==
  IF Props = <<>> THEN res
  ELSE GroupInto(PushBack(res, Head(Props)), Tail(Props))

getPropertyList(Props) == GroupInto(EmptyMap, Props)

(***************************************************************************)
(* Lines                                                                   *)
(***************************************************************************)
Line(k, s, t, rec) == [k |-> k, s |-> s, t |-> t, rec |-> rec]

Quoted(str) == "\"" \o str \o "\""

Prefix == <<"L","L","D","B","_","P","R","O","P","E","R","T","I","E","S","_">>

\* Variant of ReplaceSpaces: the std::replace call is left out.
KeepSpaces(str) == str

\* std::replace(NeededMacro.begin(), NeededMacro.end(), ' ', '_')
ReplaceSpaces(str) == [i \in 1..Len(str) |-> IF str[i] = " " THEN "_" ELSE str[i]]

\* NeededMacro of emityProperties.
NeededMacro(PropertyName) == ReplaceSpaces(Prefix \o PropertyName)

\* Variant of NeededMacroEnum: enum mode leaves the spaces in its macro.
NeededMacroEnumRaw(PropertyName) == Prefix \o PropertyName

\* NeededMacro of emitPropertyEnum(std::string, ...).
NeededMacroEnum(PropertyName) == ReplaceSpaces(Prefix \o PropertyName)

(***************************************************************************)
(* emitProperty                                                            *)
(***************************************************************************)
\* The three fields written before the assertions are evaluated.
RowStart(Property) ==
  <<Quoted(Property.Name),
    "OptionValue::eType" \o Property.Type,
    IF Property.Global THEN "true" ELSE "false">>

\* The assertion of emitProperty that fails on Property, "" if neither does.
\* With NDEBUG defined, assert expands to nothing.
FailedAssert(Property, ndebug) ==
  IF ndebug THEN ""
  ELSE IF ~(Property.HasDefaultUnsignedValue \/ Property.HasDefaultEnumValue
            \/ Property.HasDefaultStringValue)
       THEN "MissingDefault"
  ELSE IF Property.HasDefaultUnsignedValue /\ Property.HasDefaultEnumValue
       THEN "ConflictingDefault"
  ELSE ""

\* Variant of DefaultValueSlot: a string default takes the numeric slot's
\* placeholder even when an unsigned or enum default is present.
DefaultValueSlotStringFirst(Property) ==
  IF Property.HasDefaultStringValue
    THEN "0"
  ELSE IF Property.HasDefaultUnsignedValue
    THEN ToString(Property.DefaultUnsignedValue[1])
  ELSE IF Property.HasDefaultEnumValue
    THEN Property.DefaultEnumValue[1]
  ELSE "0"

\* "Emit the default uint value."
DefaultValueSlot(Property) ==
  IF Property.HasDefaultUnsignedValue
    THEN ToString(Property.DefaultUnsignedValue[1])
  ELSE IF Property.HasDefaultEnumValue
    THEN Property.DefaultEnumValue[1]
  ELSE "0"

\* Variant of DefaultStringSlot: without the fallback to the empty literal.
DefaultStringSlotNoFallback(Property) ==
  IF Property.HasDefaultStringValue /\ Property.DefaultStringValue # <<>>
    THEN Quoted(Property.DefaultStringValue[1])
  ELSE "nullptr"

\* "Emit the default string value."
DefaultStringSlot(Property) ==
  IF Property.HasDefaultStringValue
    THEN IF Property.DefaultStringValue # <<>>
           THEN Quoted(Property.DefaultStringValue[1])
           ELSE "\"\""
  ELSE "nullptr"

\* "Emit the enum values value."
EnumValuesSlot(Property) ==
  IF Property.EnumValues # <<>> THEN Property.EnumValues[1] ELSE "{}"

\* "Emit the property description."
DescriptionSlot(Property) ==
  IF Property.Description # <<>> THEN Quoted(Property.Description[1]) ELSE "\"\""

\* What one call of emitProperty appends to the stream: the whole row, or,
\* when an assertion fails, the part of the row written before it.
emitProperty(Property, ndebug) ==
  IF FailedAssert(Property, ndebug) # ""
  THEN Line("rowpart", <<>>, RowStart(Property), Property.RecName)
  ELSE Line("row", <<>>,
            RowStart(Property) \o
            <<DefaultValueSlot(Property), DefaultStringSlot(Property),
              EnumValuesSlot(Property), DescriptionSlot(Property)>>,
            Property.RecName)

\* Variant of emitPropertyEnumCase: the case is named by the Name field.
emitPropertyEnumCaseByField(Property) ==
  Line("case", <<>>, <<"eProperty" \o Property.Name>>, Property.RecName)

\* emitPropertyEnum(Record *, raw_ostream &)
emitPropertyEnumCase(Property) ==
  Line("case", <<>>, <<"eProperty" \o Property.RecName>>, Property.RecName)

(***************************************************************************)
(* The lines around the rows of a group                                    *)
(***************************************************************************)
emityPropertiesOpen(PropertyName) ==
  <<Line("comment", PropertyName, <<"// Property definitions for ">>, ""),
    Line("ifdef", NeededMacro(PropertyName), <<"#ifdef ">>, ""),
    Line("decl", PropertyName,
         <<"static constexpr PropertyDefinition g_", "_properties[] = {">>, "")>>

emityPropertiesClose(PropertyName) ==
  <<Line("close", <<>>, <<"};">>, ""),
    Line("undef", NeededMacro(PropertyName), <<"#undef ">>, ""),
    Line("endif", PropertyName, <<"#endif // ", " Property">>, "")>>

emitPropertyEnumOpen(PropertyName) ==
  <<Line("comment", PropertyName, <<"// Property enum cases for ">>, ""),
    Line("ifdef", NeededMacroEnum(PropertyName), <<"#ifdef ">>, "")>>

emitPropertyEnumClose(PropertyName) ==
  <<Line("undef", NeededMacroEnum(PropertyName), <<"#undef ">>, ""),
    Line("endif", PropertyName, <<"#endif // ", " Property">>, "")>>

\* emitSourceFileHeader(Desc, OS)
emitSourceFileHeader(Desc) == <<Line("header", <<>>, <<Desc>>, "")>>

(***************************************************************************)
(* The run                                                                 *)
(***************************************************************************)
NoRun == [ran |-> FALSE, Properties |-> <<>>, mode |-> "", pc |-> "", OS |-> <<>>]

InitRun(S) ==
  /\ Properties \in Vectors(Ptr(S))
  /\ mode \in {"table", "enum"}
  /\ NDEBUG \in BOOLEAN
  /\ pc = "start"
  /\ err = ""
  /\ OS = <<>>
  /\ result = EmptyMap
  /\ gi = 1
  /\ ri = 1
  /\ prev = NoRun

Init == InitRun(AllRecords)

InitPair == InitRun(PairRecords)

\* The map entry the outer loop is at.
CurName == result[gi].first
CurRecords == result[gi].second

\* EmitPropertyDefs up to the first iteration of its loop.
EmitPropertyDefs ==
  /\ pc = "start" /\ mode = "table"
  /\ OS' = OS \o emitSourceFileHeader("Property definitions for LLDB.")
  /\ result' = getPropertyList(Properties)
  /\ gi' = 1
  /\ pc' = "group"
  /\ UNCHANGED <<Properties, mode, NDEBUG, err, ri, prev>>

\* EmitPropertyEnumDefs up to the first iteration of its loop.
EmitPropertyEnumDefs ==
  /\ pc = "start" /\ mode = "enum"
  /\ OS' = OS \o emitSourceFileHeader("Property definition enum for LLDB.")
  /\ result' = getPropertyList(Properties)
  /\ gi' = 1
  /\ pc' = "group"
  /\ UNCHANGED <<Properties, mode, NDEBUG, err, ri, prev>>

\* emityProperties: the lines before the rows.
BeginTable ==
  /\ pc = "group" /\ mode = "table" /\ gi <= Len(result)
  /\ OS' = OS \o emityPropertiesOpen(CurName)
  /\ ri' = 1
  /\ pc' = "rows"
  /\ UNCHANGED <<Properties, mode, NDEBUG, err, result, gi, prev>>

\* emitPropertyEnum(std::string, ...): the lines before the cases.
BeginEnum ==
  /\ pc = "group" /\ mode = "enum" /\ gi <= Len(result)
  /\ OS' = OS \o emitPropertyEnumOpen(CurName)
  /\ ri' = 1
  /\ pc' = "rows"
  /\ UNCHANGED <<Properties, mode, NDEBUG, err, result, gi, prev>>

\* One call of emitProperty that returns.
EmitRow ==
  /\ pc = "rows" /\ mode = "table" /\ ri <= Len(CurRecords)
  /\ FailedAssert(At(CurRecords[ri]), NDEBUG) = ""
  /\ OS' = Append(OS, emitProperty(At(CurRecords[ri]), NDEBUG))
  /\ ri' = ri + 1
  /\ UNCHANGED <<Properties, mode, NDEBUG, pc, err, result, gi, prev>>

\* One call of emitProperty in which an assertion fails: the process aborts.
AssertFails ==
  /\ pc = "rows" /\ mode = "table" /\ ri <= Len(CurRecords)
  /\ FailedAssert(At(CurRecords[ri]), NDEBUG) # ""
  /\ OS' = Append(OS, emitProperty(At(CurRecords[ri]), NDEBUG))
  /\ err' = FailedAssert(At(CurRecords[ri]), NDEBUG)
  /\ pc' = "aborted"
  /\ UNCHANGED <<Properties, mode, NDEBUG, result, gi, ri, prev>>

\* One call of emitPropertyEnum(Record *, raw_ostream &).
EmitCase ==
  /\ pc = "rows" /\ mode = "enum" /\ ri <= Len(CurRecords)
  /\ OS' = Append(OS, emitPropertyEnumCase(At(CurRecords[ri])))
  /\ ri' = ri + 1
  /\ UNCHANGED <<Properties, mode, NDEBUG, pc, err, result, gi, prev>>

\* emityProperties: the lines after the rows.
EndTable ==
  /\ pc = "rows" /\ mode = "table" /\ ri > Len(CurRecords)
  /\ OS' = OS \o emityPropertiesClose(CurName)
  /\ gi' = gi + 1
  /\ pc' = "group"
  /\ UNCHANGED <<Properties, mode, NDEBUG, err, result, ri, prev>>

\* emitPropertyEnum(std::string, ...): the lines after the cases.
EndEnum ==
  /\ pc = "rows" /\ mode = "enum" /\ ri > Len(CurRecords)
  /\ OS' = OS \o emitPropertyEnumClose(CurName)
  /\ gi' = gi + 1
  /\ pc' = "group"
  /\ UNCHANGED <<Properties, mode, NDEBUG, err, result, ri, prev>>

\* The loop over the map is exhausted and the backend returns.
Return ==
  /\ pc = "group" /\ gi > Len(result)
  /\ pc' = "done"
  /\ UNCHANGED <<Properties, mode, NDEBUG, err, OS, result, gi, ri, prev>>

\* The orders in which the records of the vector v can be supplied.
Reorderings(v) ==
  {w \in [1..Len(v) -> {v[i] : i \in 1..Len(v)}] :
     \A i, j \in 1..Len(v) : i # j => w[i] # w[j]}

\* The same build of the tool is run once more, in either mode, on the same
\* set of records, which the Record Source supplies in some order.
RunAgain ==
  /\ pc \in {"done", "aborted"} /\ ~prev.ran
  /\ prev' = [ran |-> TRUE, Properties |-> Properties, mode |-> mode,
              pc |-> pc, OS |-> OS]
  /\ Properties' \in Reorderings(Properties)
  /\ mode' \in {"table", "enum"}
  /\ pc' = "start"
  /\ err' = ""
  /\ OS' = <<>>
  /\ result' = EmptyMap
  /\ gi' = 1
  /\ ri' = 1
  /\ UNCHANGED NDEBUG

Next ==
  \/ EmitPropertyDefs
  \/ EmitPropertyEnumDefs
  \/ BeginTable
  \/ BeginEnum
  \/ EmitRow
  \/ AssertFails
  \/ EmitCase
  \/ EndTable
  \/ EndEnum
  \/ Return

NextPair == Next \/ RunAgain

\* One run of the tool.
Spec == Init /\ [][Next]_vars

\* Two runs of the tool on the same set of records.
SpecPair == InitPair /\ [][NextPair]_vars

(***************************************************************************)
(* Vocabulary of the properties                                            *)
(***************************************************************************)
\* Rule V1 and rule V2 of the validator.
MissingDefault(r) ==
  ~(r.HasDefaultUnsignedValue \/ r.HasDefaultEnumValue \/ r.HasDefaultStringValue)
ConflictingDefault(r) == r.HasDefaultUnsignedValue /\ r.HasDefaultEnumValue
PassesValidation(r) == ~MissingDefault(r) /\ ~ConflictingDefault(r)

InputRecords == {At(Properties[i]) : i \in 1..Len(Properties)}
AllPass == \A r \in InputRecords : PassesValidation(r)

\* The positions of the stream that hold a table row or an enum case.
Entries(os) == {p \in 1..Len(os) : os[p].k \in {"row", "case"}}

\* The group of the block position p of the stream lies in: the group the
\* last header comment at or before p names.
BlockOf(os, p) ==
  LET c == CHOOSE i \in 1..p :
             os[i].k = "comment" /\ \A j \in (i + 1)..p : os[j].k # "comment"
  IN os[c].s

\* The position of the record p in the input vector.
PosOf(v, p) == CHOOSE i \in 1..Len(v) : v[i] = p

\* The records of group g, in input order.
OfGroup(v, g) == SelectSeq(v, LAMBDA p : At(p).Definition = g)

GroupNames(v) == {At(v[i]).Definition : i \in 1..Len(v)}

ToUpper(c) ==
  IF \E i \in 1..26 : LowerLetters[i] = c
  THEN UpperLetters[CHOOSE i \in 1..26 : LowerLetters[i] = c]
  ELSE c

\* LLDB_PROPERTIES_ and the group name, spaces as underscores, in upper case.
UpperGuard(g) ==
  Prefix \o [i \in 1..Len(g) |-> IF g[i] = " " THEN "_" ELSE ToUpper(g[i])]

\* LLDB_PROPERTIES_ and the group name, spaces as underscores, case kept.
PlainGuard(g) ==
  Prefix \o [i \in 1..Len(g) |-> IF g[i] = " " THEN "_" ELSE g[i]]

(***************************************************************************)
(* C1                                                                      *)
(***************************************************************************)
\* C1: if an input record has none of the three defaults, the run aborts
\* with MissingDefault, and at the abort nothing has been written to the
\* stream.  (A run that aborts on another record's conflicting defaults
\* first is not counted against the claim.)
C1_MissingDefaultAbortsBeforeOutput ==
  (\E r \in InputRecords : MissingDefault(r)) =>
     /\ (\A r \in InputRecords : ~ConflictingDefault(r)) => pc # "done"
     /\ (pc = "aborted" /\ err = "MissingDefault") => OS = <<>>

(***************************************************************************)
(* C2                                                                      *)
(***************************************************************************)
\* C2: a run, in either mode, whose input holds a record with both an
\* unsigned and an enum default never reaches normal completion.
C2_ConflictNeverCompletes ==
  (\E r \in InputRecords : ConflictingDefault(r)) => pc # "done"

(***************************************************************************)
(* C3                                                                      *)
(***************************************************************************)
\* C3 as stated: in both modes the macro of every #ifdef and #undef line is
\* LLDB_PROPERTIES_ followed by the group name in upper case with spaces
\* replaced by underscores.
C3_GuardUppercased ==
  \A p \in 1..Len(OS) :
     OS[p].k \in {"ifdef", "undef"} => OS[p].s = UpperGuard(BlockOf(OS, p))

\* C3 amended: in both modes the macro of every #ifdef and #undef line is
\* LLDB_PROPERTIES_ followed by the group name with spaces replaced by
\* underscores and the case of its letters kept; "Target Experimental"
\* yields LLDB_PROPERTIES_Target_Experimental.
C3_GuardSpacesReplaced ==
  \A p \in 1..Len(OS) :
     OS[p].k \in {"ifdef", "undef"} =>
        /\ OS[p].s = PlainGuard(BlockOf(OS, p))
        /\ BlockOf(OS, p) = TargetExperimental =>
             OS[p].s = Prefix \o <<"T","a","r","g","e","t","_",
                                   "E","x","p","e","r","i","m","e","n","t","a","l">>

\* A finished enum-mode run that wrote the guard of "Target Experimental".
C3_Witness ==
  /\ pc = "done" /\ mode = "enum"
  /\ \E p, q \in 1..Len(OS) :
        /\ OS[p].k = "ifdef" /\ OS[q].k = "undef" /\ p < q
        /\ BlockOf(OS, p) = TargetExperimental
        /\ BlockOf(OS, q) = TargetExperimental

(***************************************************************************)
(* C5                                                                      *)
(***************************************************************************)
\* C5: after a run that completes on records that all pass validation,
\* every input record has exactly one row (or case line), that line lies
\* in the block of the record's Definition, and the number of rows equals
\* the number of input records.
C5_GroupingComplete ==
  (pc = "done" /\ AllPass) =>
     /\ \A i \in 1..Len(Properties) :
          /\ Cardinality({p \in Entries(OS) : OS[p].rec = Properties[i]}) = 1
          /\ \A p \in Entries(OS) :
               OS[p].rec = Properties[i] =>
                  BlockOf(OS, p) = At(Properties[i]).Definition
     /\ Cardinality(Entries(OS)) = Len(Properties)

\* A finished run on three valid records of which two share a group.
C5_Witness ==
  /\ pc = "done" /\ AllPass /\ Len(Properties) = 3
  /\ Cardinality(GroupNames(Properties)) = 2
  /\ Cardinality(Entries(OS)) = 3

(***************************************************************************)
(* C6                                                                      *)
(***************************************************************************)
\* The record a comes before the record b in the input stably sorted by
\* Definition.
SortsBefore(a, b) ==
  \/ StrLess(At(a).Definition, At(b).Definition)
  \/ /\ At(a).Definition = At(b).Definition
     /\ PosOf(Properties, a) < PosOf(Properties, b)

\* C6: the records in the order their rows are written are the input
\* stably sorted by Definition: blocks in ascending order of group name,
\* one block per distinct group name, rows of a block in input order.
C6_StableSortByDefinition ==
  /\ \A p, q \in Entries(OS) : p < q => SortsBefore(OS[p].rec, OS[q].rec)
  /\ \A p, q \in 1..Len(OS) :
        (OS[p].k = "comment" /\ OS[q].k = "comment" /\ p < q) =>
           StrLess(OS[p].s, OS[q].s)
  /\ pc = "done" =>
        /\ {OS[p].rec : p \in Entries(OS)} = {Properties[i] : i \in 1..Len(Properties)}
        /\ {OS[p].s : p \in {q \in 1..Len(OS) : OS[q].k = "comment"}}
             = GroupNames(Properties)

\* A finished run on three records given out of order: the first record's
\* group sorts after the second's, and the first and third share a group.
C6_Witness ==
  /\ pc = "done" /\ Len(Properties) = 3
  /\ StrLess(At(Properties[2]).Definition, At(Properties[1]).Definition)
  /\ At(Properties[3]).Definition = At(Properties[1]).Definition
  /\ Cardinality(Entries(OS)) = 3

(***************************************************************************)
(* C7                                                                      *)
(***************************************************************************)
\* C7: for every record that passes validation, the fourth field of its
\* row is the integer literal of DefaultUnsignedValue when it has an
\* unsigned default, the token of DefaultEnumValue when it has an enum
\* default, and 0 otherwise, whether or not it has a string default too.
C7_DefaultValueSlot ==
  \A p \in 1..Len(OS) :
     (OS[p].k = "row" /\ PassesValidation(At(OS[p].rec))) =>
        LET r == At(OS[p].rec)
        IN /\ r.HasDefaultUnsignedValue =>
                OS[p].t[4] = ToString(r.DefaultUnsignedValue[1])
           /\ r.HasDefaultEnumValue => OS[p].t[4] = r.DefaultEnumValue[1]
           /\ (~r.HasDefaultUnsignedValue /\ ~r.HasDefaultEnumValue) =>
                OS[p].t[4] = "0"

\* Rows were written for a record with an unsigned and a string default,
\* for one with an enum and a string default and for one with a string
\* default only.
C7_Witness ==
  /\ \E p \in 1..Len(OS) : OS[p].k = "row" /\ OS[p].rec = "ExprPrefix" /\ OS[p].t[4] = "7"
  /\ \E p \in 1..Len(OS) : OS[p].k = "row" /\ OS[p].rec = "Language"
  /\ \E p \in 1..Len(OS) : OS[p].k = "row" /\ OS[p].rec = "Prompt" /\ OS[p].t[4] = "0"

(***************************************************************************)
(* C8                                                                      *)
(***************************************************************************)
\* C8 as stated: the fifth field of every row is the quoted text of
\* DefaultStringValue exactly when the record has a string default and
\* nullptr exactly when it has none; no other value is ever written there.
C8_StringSlotQuotedOrNull ==
  \A p \in 1..Len(OS) :
     OS[p].k = "row" =>
        LET r == At(OS[p].rec)
        IN /\ r.HasDefaultStringValue =>
                /\ r.DefaultStringValue # <<>>
                /\ OS[p].t[5] = Quoted(r.DefaultStringValue[1])
           /\ ~r.HasDefaultStringValue => OS[p].t[5] = "nullptr"

\* C8 amended: the fifth field of every row is the quoted text of
\* DefaultStringValue when the record has the HasDefaultStringValue marker
\* and a DefaultStringValue field, the empty string literal "" when it has
\* the marker and no DefaultStringValue field, and nullptr exactly when it
\* has no marker.
C8_StringSlot ==
  \A p \in 1..Len(OS) :
     OS[p].k = "row" =>
        LET r == At(OS[p].rec)
        IN /\ (r.HasDefaultStringValue /\ r.DefaultStringValue # <<>>) =>
                OS[p].t[5] = Quoted(r.DefaultStringValue[1])
           /\ (r.HasDefaultStringValue /\ r.DefaultStringValue = <<>>) =>
                OS[p].t[5] = "\"\""
           /\ (OS[p].t[5] = "nullptr") <=> ~r.HasDefaultStringValue

\* A row was written for the record that has the marker and no value, and
\* one for a record with a string default.
C8_Witness ==
  /\ \E p \in 1..Len(OS) :
        OS[p].k = "row" /\ OS[p].rec = "MarkerOnly" /\ OS[p].t[5] = "\"\""
  /\ \E p \in 1..Len(OS) :
        OS[p].k = "row" /\ At(OS[p].rec).DefaultStringValue # <<>>

(***************************************************************************)
(* C9                                                                      *)
(***************************************************************************)
\* C9 as stated, its part about the name: every enum case line is
\* eProperty followed by the name table mode writes as the first field of
\* the record's row (the record's Name field).
C9_CaseNamedByNameField ==
  \A p \in 1..Len(OS) :
     OS[p].k = "case" => OS[p].t = <<"eProperty" \o At(OS[p].rec).Name>>

\* C9 amended: in enum mode every group yields exactly one block: the
\* header comment naming the group, the #ifdef of the group's macro, one
\* line eProperty<name>, per record of the group in input order, where
\* <name> is the record's TableGen name (Record::getName(), not the Name
\* field table mode writes), the #undef of the same macro, the #endif; and
\* nothing else follows the file header.
C9_EnumBlocks ==
  (mode = "enum" /\ pc = "done") =>
     /\ \A g \in GroupNames(Properties) :
          Cardinality({p \in 1..Len(OS) : OS[p].k = "comment" /\ OS[p].s = g}) = 1
     /\ \A p \in 1..Len(OS) :
          OS[p].k = "comment" =>
             LET recs == OfGroup(Properties, OS[p].s)
                 n == Len(recs)
             IN /\ n >= 1
                /\ p + n + 3 <= Len(OS)
                /\ OS[p + 1].k = "ifdef"
                /\ \A i \in 1..n :
                     /\ OS[p + 1 + i].k = "case"
                     /\ OS[p + 1 + i].t = <<"eProperty" \o At(recs[i]).RecName>>
                /\ OS[p + n + 2].k = "undef"
                /\ OS[p + n + 2].s = OS[p + 1].s
                /\ OS[p + n + 3].k = "endif"
     /\ Len(OS) = 1 + Len(Properties) + 4 * Cardinality(GroupNames(Properties))
     /\ Len(OS) >= 1 /\ OS[1].k = "header"

\* A finished enum-mode run with two blocks, one of them of two records,
\* and a record whose TableGen name differs from its Name field.
C9_Witness ==
  /\ mode = "enum" /\ pc = "done" /\ Len(Properties) = 3
  /\ Cardinality(GroupNames(Properties)) = 2
  /\ \E p \in 1..Len(OS) :
        OS[p].k = "case" /\ At(OS[p].rec).Name # At(OS[p].rec).RecName

(***************************************************************************)
(* C4 and C10: two runs                                                    *)
(***************************************************************************)
BothDone == prev.ran /\ prev.pc = "done" /\ pc = "done"

\* The lines of a stream that are neither rows nor cases.
Frame(os) == SelectSeq(os, LAMBDA l : l.k \notin {"row", "case"})

LineSet(os) == {os[p] : p \in 1..Len(os)}

\* C4 as stated: two completed runs in the same mode on the same set of
\* records write identical output, whatever order the records come in.
C4_SameSetSameOutput ==
  (BothDone /\ mode = prev.mode) => OS = prev.OS

\* C4 amended: two completed runs in the same mode on the same set of
\* records write the same lines with the same group blocks in the same
\* order, whatever order the records come in; the rows inside a block
\* follow the order of the input, so the whole output is identical when
\* the records come in the same order.
C4_Determinism ==
  (BothDone /\ mode = prev.mode) =>
     /\ Frame(OS) = Frame(prev.OS)
     /\ LineSet(OS) = LineSet(prev.OS)
     /\ \A p \in Entries(OS), q \in Entries(prev.OS) :
          OS[p] = prev.OS[q] => BlockOf(OS, p) = BlockOf(prev.OS, q)
     /\ Properties = prev.Properties => OS = prev.OS

\* Two completed runs in the same mode on three records of two groups,
\* supplied in two orders that put the groups in opposite order.
C4_Witness ==
  /\ BothDone /\ mode = prev.mode
  /\ Len(Properties) = 3
  /\ Cardinality(GroupNames(Properties)) >= 2
  /\ At(Properties[1]).Definition # At(prev.Properties[1]).Definition
  /\ OS # prev.OS

\* What a stream says about groups and records, whichever the mode: the
\* group of each header comment, the macro of each #ifdef and #undef, and
\* the record of each row or case.
Skeleton(os) ==
  LET kept == SelectSeq(os, LAMBDA l : l.k \in {"comment", "ifdef", "undef", "row", "case"})
  IN [i \in 1..Len(kept) |->
        <<IF kept[i].k \in {"row", "case"} THEN "entry" ELSE kept[i].k,
          kept[i].s, kept[i].rec>>]

\* C10: for the same input vector of records that all pass validation,
\* enum mode and table mode write the same groups in the same order under
\* the same guard macros, and the i-th case of a group and the i-th row of
\* the group come from the same record.
C10_EnumMatchesTable ==
  (BothDone /\ mode # prev.mode /\ Properties = prev.Properties /\ AllPass) =>
     Skeleton(OS) = Skeleton(prev.OS)

\* A table-mode run and an enum-mode run on the same three valid records,
\* two of them of one group and one of group "Target Experimental".
C10_Witness ==
  /\ BothDone /\ mode = "enum" /\ prev.mode = "table"
  /\ Properties = prev.Properties /\ AllPass
  /\ Len(Properties) = 3
  /\ Cardinality(GroupNames(Properties)) = 2
  /\ TargetExperimental \in GroupNames(Properties)

====
